---- MODULE Spec2Model ----
(***************************************************************************)
(* Model of server.js: an Express application with a POST /whatsapp        *)
(* webhook that forwards user text to generarRespuestaGemini, and a        *)
(* GET /whatsapp verification handshake.                                   *)
(*                                                                         *)
(* JavaScript values are tagged records, so that property access,          *)
(* optional chaining, truthiness, strict equality and string conversion    *)
(* are computed as the language computes them.                             *)
(***************************************************************************)
EXTENDS Integers, Sequences, FiniteSets, TLC

\* ------------------------------------------------------------------------
\* JavaScript values
\* ------------------------------------------------------------------------
Undef == [t |-> "undefined"]
Null == [t |-> "null"]
Str(s) == [t |-> "string", s |-> s]
Arr(es) == [t |-> "array", e |-> es]
Obj(fields) == [t |-> "object", f |-> fields]

\* v is null or undefined: property access on it throws, ?. short-circuits
Nullish(v) == v.t \in {"undefined", "null"}

\* ToBoolean, as used by if (...), && and !
Truthy(v) ==
  CASE v.t = "undefined" -> FALSE
    [] v.t = "null" -> FALSE
    [] v.t = "string" -> v.s # ""
    [] OTHER -> TRUE

\* v.k on a value that is not nullish
Prop(v, k) == IF v.t = "object" /\ k \in DOMAIN v.f THEN v.f[k] ELSE Undef

\* v[0] on an array or an object (the inputs index nothing else)
Index0(v) ==
  CASE v.t = "array" -> IF Len(v.e) > 0 THEN v.e[1] ELSE Undef
    [] v.t = "object" -> Prop(v, "0")

\* v?.k and v?.[0]
OptGet(v, k) == IF Nullish(v) THEN Undef ELSE Prop(v, k)
OptIndex0(v) == IF Nullish(v) THEN Undef ELSE Index0(v)

\* `${v}` throws a TypeError when v is an object parsed from JSON whose own
\* "toString" property shadows Object.prototype.toString with a non-callable
\* value (valueOf then returns the object itself).
Printable(v) == ~(v.t = "object" /\ "toString" \in DOMAIN v.f)

\* `${v}` for a printable string, undefined, null or object (the inputs put
\* nothing else into a template)
TemplateString(v) ==
  CASE v.t = "string" -> v.s
    [] v.t = "undefined" -> "undefined"
    [] v.t = "null" -> "null"
    [] v.t = "object" -> "[object Object]"

\* ------------------------------------------------------------------------
\* Fixed strings of the program
\* ------------------------------------------------------------------------
NoPudeGenerar == "Lo siento, no pude generar una respuesta en este momento."
DificultadesTecnicas == "Lo siento, tengo dificultades técnicas para procesar tu solicitud en este momento. Por favor, inténtalo de nuevo más tarde."
Placeholder(type) == "El usuario envió un mensaje de tipo: " \o TemplateString(type) \o "."

\* Body that res.sendStatus(code) sends with the status
StatusText(code) ==
  CASE code = 200 -> "OK"
    [] code = 403 -> "Forbidden"
    [] OTHER -> "Internal Server Error"

\* Body that res.send(v) sends
SendBody(v) == IF v.t = "string" THEN v.s ELSE ""

\* ------------------------------------------------------------------------
\* Inputs: environment, webhook payloads, query strings, service outcomes
\* ------------------------------------------------------------------------
MaxRequests == 2

\* An object parsed from {"toString": 1}-like JSON: truthy, not printable
Unprintable == Obj([toString |-> Str("x")])

ApiKeys == {Undef, Str(""), Str("AIza-key")}
VerifyTokens == {Undef, Str("mi-secreto")}

Senders == {Undef, Str("5215550001"), Unprintable}
TextBodies == {Undef, Str(""), Str("Hello"), Str("Hola"), Unprintable}
TextObjects == {Undef} \cup {Obj([body |-> b]) : b \in TextBodies}
OtherTypes == {Undef, Str("image"), Unprintable}
Message(from, type, text) ==
  Obj([from |-> from, id |-> Str("wamid.A"), type |-> type, text |-> text])
\* Text messages with every shape of text object; messages of another type
\* (the code never reads their text object)
Messages ==
  {Message(fr, Str("text"), tx) : fr \in Senders, tx \in TextObjects}
    \cup {Message(fr, ty, Undef) : fr \in Senders, ty \in OtherTypes}
HelloMessage == Message(Str("5215550001"), Str("text"), Obj([body |-> Str("Hello")]))
ImageMessage == Message(Str("5215550001"), Str("image"), Undef)
MessageLists ==
  {Undef, Arr(<<>>), Arr(<<Null>>),
   Arr(<<HelloMessage, ImageMessage>>), Arr(<<ImageMessage, HelloMessage>>)}
    \cup {Arr(<<m>>) : m \in Messages}
ChangeValue(ml) == Obj([messaging_product |-> Str("whatsapp"), messages |-> ml])
Change(field, value) == Obj([field |-> field, value |-> value])
\* Changes of the "messages" field with every message list; changes of another
\* field, or of none, with a few of them
Changes ==
  {Change(Str("messages"), v) : v \in {Undef} \cup {ChangeValue(ml) : ml \in MessageLists}}
    \cup {Change(fl, v) :
            fl \in {Undef, Str("account_update")},
            v \in {Undef, ChangeValue(Undef), ChangeValue(Arr(<<HelloMessage>>)),
                   ChangeValue(Arr(<<ImageMessage>>))}}
ChangeLists == {Undef, Arr(<<>>)} \cup {Arr(<<c>>) : c \in Changes}
Entries == {Obj([id |-> Str("0"), changes |-> cl]) : cl \in ChangeLists}
EntryLists == {Undef, Arr(<<>>), Arr(<<Null>>)} \cup {Arr(<<e>>) : e \in Entries}
\* req.body: undefined when no parser produced a body
RequestBodies ==
  {Undef} \cup
  {Obj([object |-> Str("whatsapp_business_account"), entry |-> el]) : el \in EntryLists}

QueryModes == {Undef, Str("subscribe"), Str("unsubscribe")}
QueryTokens == {Undef, Str("mi-secreto"), Str("otro")}
QueryChallenges == {Str("1158201444"), Str("abc")}

\* What response.text() of a fulfilled generateContent result returns
ServiceTexts == {Undef, Str(""), Str("Con gusto le ayudo.")}

\* ------------------------------------------------------------------------
\* State
\* ------------------------------------------------------------------------
VARIABLES
  env,              \* process.env: GEMINI_API_KEY, WHATSAPP_VERIFY_TOKEN
  proc,             \* "starting", "exited" (process.exit(1)) or "listening"
  genAI,            \* TRUE once new GoogleGenerativeAI(...) has run
  pc,               \* position of the POST handler for the current request
  reqNo,            \* number of POST requests received so far
  reqBody,          \* req.body of the current POST request
  textoUsuario,     \* handler locals
  numeroRemitente,
  messageId,
  calls,            \* arguments of the generarRespuestaGemini calls of this request
  svc,              \* the pending model.generateContent promise
  gen,              \* how the generarRespuestaGemini promise settled
  sent,             \* responses the POST handler sent for this request
  getQuery,         \* req.query of the last GET request
  getRes            \* response to the last GET request

vars ==
  <<env, proc, genAI, pc, reqNo, reqBody, textoUsuario, numeroRemitente,
    messageId, calls, svc, gen, sent, getQuery, getRes>>

postVars ==
  <<pc, reqNo, reqBody, textoUsuario, numeroRemitente, messageId, calls, svc,
    gen, sent>>

SvcIdle == [state |-> "idle", text |-> Undef, textThrows |-> FALSE]
GenNone == [kind |-> "none", value |-> Undef]
Response(code, body) == [status |-> code, body |-> body]
\* res.sendStatus(code)
SendStatus(code) == Response(code, StatusText(code))

Init ==
  /\ env \in [GEMINI_API_KEY : ApiKeys, WHATSAPP_VERIFY_TOKEN : VerifyTokens]
  /\ proc = "starting"
  /\ genAI = FALSE
  /\ pc = "idle"
  /\ reqNo = 0
  /\ reqBody = Undef
  /\ textoUsuario = Str("")
  /\ numeroRemitente = Str("")
  /\ messageId = Str("")
  /\ calls = <<>>
  /\ svc = SvcIdle
  /\ gen = GenNone
  /\ sent = <<>>
  /\ getQuery = [mode |-> Undef, token |-> Undef, challenge |-> Undef]
  /\ getRes = Response(0, "")

\* ------------------------------------------------------------------------
\* Module top level: key check, client creation, app.listen
\* ------------------------------------------------------------------------
Startup_NoExit ==
  /\ proc = "starting"
  /\ proc' = "listening"
  /\ genAI' = TRUE
  /\ UNCHANGED <<env, postVars, getQuery, getRes>>

Startup ==
  /\ proc = "starting"
  /\ IF ~Truthy(env.GEMINI_API_KEY)
       THEN proc' = "exited" /\ genAI' = FALSE
       ELSE proc' = "listening" /\ genAI' = TRUE
  /\ UNCHANGED <<env, postVars, getQuery, getRes>>

\* ------------------------------------------------------------------------
\* GET /whatsapp
\* ------------------------------------------------------------------------
Verified(mode, token, verify_token) == mode = Str("subscribe") /\ token = verify_token

GetWhatsapp(mode, token, challenge) ==
  /\ proc = "listening"
  /\ getQuery' = [mode |-> mode, token |-> token, challenge |-> challenge]
  /\ getRes' = IF Verified(mode, token, env.WHATSAPP_VERIFY_TOKEN)
                 THEN Response(200, SendBody(challenge))
                 ELSE SendStatus(403)
  /\ UNCHANGED <<env, proc, genAI, postVars>>

\* ------------------------------------------------------------------------
\* POST /whatsapp
\* ------------------------------------------------------------------------
\* return res.sendStatus(200) of the else branch (no message in the payload)
OnNoMessage_403 == SendStatus(403)
OnNoMessage == SendStatus(200)

\* return res.sendStatus(200) of the catch block around the payload navigation
OnParseError_500 == SendStatus(500)
OnParseError == SendStatus(200)

Extracted(texto, from, id) ==
  [outcome |-> "extracted", textoUsuario |-> texto, numeroRemitente |-> from,
   messageId |-> id]
Returned(outcome) ==
  [outcome |-> outcome, textoUsuario |-> Str(""), numeroRemitente |-> Str(""),
   messageId |-> Str("")]

\* textoUsuario for a text message and for any other message
TextOf_Placeholder(message) == Str(Placeholder(Prop(message, "type")))
TextOf(message) ==
  IF Prop(message, "type") = Str("text")
    THEN Prop(Prop(message, "text"), "body")
    ELSE Str(Placeholder(Prop(message, "type")))

\* The try block: what it leaves in the locals, or how it returns
Extract(body) ==
  IF Nullish(body) THEN Returned("caught")          \* req.body.entry throws
  ELSE
    LET changes == OptIndex0(OptGet(OptIndex0(Prop(body, "entry")), "changes")) IN
    IF /\ Truthy(changes)
       /\ Prop(changes, "field") = Str("messages")
       /\ Truthy(Prop(changes, "value"))
       /\ Truthy(Prop(Prop(changes, "value"), "messages"))
    THEN
      LET message == Index0(Prop(Prop(changes, "value"), "messages")) IN
      IF Nullish(message) THEN Returned("caught")   \* message.from throws
      ELSE IF Prop(message, "type") = Str("text")
        THEN IF Nullish(Prop(message, "text"))
               THEN Returned("caught")               \* message.text.body throws
               ELSE Extracted(TextOf(message), Prop(message, "from"),
                              Prop(message, "id"))
        ELSE IF ~Printable(Prop(message, "type")) \/ ~Printable(Prop(message, "from"))
               THEN Returned("caught")               \* template literal throws
               ELSE Extracted(TextOf(message), Prop(message, "from"),
                              Prop(message, "id"))
    ELSE Returned("noMessage")

\* The handler from its entry to its first await or to its return
PostReceive(body) ==
  /\ proc = "listening"
  /\ pc \in {"idle", "done", "rejected"}
  /\ reqNo < MaxRequests
  /\ reqNo' = reqNo + 1
  /\ reqBody' = body
  /\ gen' = GenNone
  /\ LET x == Extract(body) IN
     /\ textoUsuario' = x.textoUsuario
     /\ numeroRemitente' = x.numeroRemitente
     /\ messageId' = x.messageId
     /\ CASE x.outcome = "noMessage" ->
               /\ sent' = <<OnNoMessage>>
               /\ calls' = <<>> /\ svc' = SvcIdle /\ pc' = "done"
          [] x.outcome = "caught" ->
               /\ sent' = <<OnParseError>>
               /\ calls' = <<>> /\ svc' = SvcIdle /\ pc' = "done"
          [] OTHER ->
               IF ~Printable(x.numeroRemitente) \/ ~Printable(x.textoUsuario)
                 THEN \* the log line after the try block throws: the handler's
                      \* promise rejects and the handler sends nothing
                      /\ sent' = <<>> /\ calls' = <<>> /\ svc' = SvcIdle
                      /\ pc' = "rejected"
                 ELSE IF Truthy(x.textoUsuario)
                   THEN \* generarRespuestaGemini runs up to await generateContent
                        /\ sent' = <<>> /\ calls' = <<x.textoUsuario>>
                        /\ svc' = [SvcIdle EXCEPT !.state = "pending"]
                        /\ pc' = "inGenerator"
                   ELSE /\ sent' = <<SendStatus(200)>>
                        /\ calls' = <<>> /\ svc' = SvcIdle /\ pc' = "done"
  /\ UNCHANGED <<env, proc, genAI, getQuery, getRes>>

\* The generation service fulfils the generateContent promise
ServiceFulfils(text, textThrows) ==
  /\ svc.state = "pending"
  /\ svc' = [state |-> "fulfilled", text |-> text, textThrows |-> textThrows]
  /\ UNCHANGED <<env, proc, genAI, pc, reqNo, reqBody, textoUsuario,
                 numeroRemitente, messageId, calls, gen, sent, getQuery, getRes>>

\* The generation service call fails
ServiceRejects ==
  /\ svc.state = "pending"
  /\ svc' = [svc EXCEPT !.state = "rejected"]
  /\ UNCHANGED <<env, proc, genAI, pc, reqNo, reqBody, textoUsuario,
                 numeroRemitente, messageId, calls, gen, sent, getQuery, getRes>>

\* The generation service keeps the call open and never answers it
ServiceSilent ==
  /\ svc.state = "pending"
  /\ svc' = [svc EXCEPT !.state = "silent"]
  /\ UNCHANGED <<env, proc, genAI, pc, reqNo, reqBody, textoUsuario,
                 numeroRemitente, messageId, calls, gen, sent, getQuery, getRes>>

GenReturn(v) == [kind |-> "return", value |-> v]
GenThrow == [kind |-> "throw", value |-> Undef]

\* generarRespuestaGemini from the settled await to its return
GenResult_NoCatch(s) ==
  IF s.state = "rejected" \/ s.textThrows THEN GenThrow
  ELSE IF ~Truthy(s.text) THEN GenReturn(Str(NoPudeGenerar))
  ELSE GenReturn(s.text)

GenResult(s) ==
  IF s.state = "rejected" \/ s.textThrows THEN GenReturn(Str(DificultadesTecnicas))
  ELSE IF ~Truthy(s.text) THEN GenReturn(Str(NoPudeGenerar))
  ELSE GenReturn(s.text)

GenContinue ==
  /\ pc = "inGenerator"
  /\ svc.state \in {"fulfilled", "rejected"}
  /\ gen' = GenResult(svc)
  /\ pc' = "generatorSettled"
  /\ UNCHANGED <<env, proc, genAI, reqNo, reqBody, textoUsuario, numeroRemitente,
                 messageId, calls, svc, sent, getQuery, getRes>>

\* The handler after await generarRespuestaGemini(...)
PostResume_NoAwait ==
  /\ pc \in {"inGenerator", "generatorSettled"}
  /\ sent' = Append(sent, SendStatus(200))
  /\ pc' = "done"
  /\ UNCHANGED <<env, proc, genAI, reqNo, reqBody, textoUsuario, numeroRemitente,
                 messageId, calls, svc, gen, getQuery, getRes>>

PostResume ==
  /\ pc = "generatorSettled"
  /\ IF gen.kind = "throw"
       THEN sent' = sent /\ pc' = "rejected"
       ELSE sent' = Append(sent, SendStatus(200)) /\ pc' = "done"
  /\ UNCHANGED <<env, proc, genAI, reqNo, reqBody, textoUsuario, numeroRemitente,
                 messageId, calls, svc, gen, getQuery, getRes>>

\* ------------------------------------------------------------------------
\* Specifications
\* ------------------------------------------------------------------------
Next ==
  \/ Startup
  \/ \E mode \in QueryModes, token \in QueryTokens, challenge \in QueryChallenges :
       GetWhatsapp(mode, token, challenge)
  \/ \E body \in RequestBodies : PostReceive(body)
  \/ \E text \in ServiceTexts, textThrows \in BOOLEAN : ServiceFulfils(text, textThrows)
  \/ ServiceRejects
  \/ ServiceSilent
  \/ GenContinue
  \/ PostResume

Spec == Init /\ [][Next]_vars

\* The event loop runs every continuation that is ready; the service decides
\* the fate of every call it receives (ServiceSilent is one such decision).
FairSpec ==
  /\ Spec
  /\ WF_vars(\E text \in ServiceTexts, textThrows \in BOOLEAN :
               ServiceFulfils(text, textThrows))
  /\ WF_vars(GenContinue)
  /\ WF_vars(PostResume)

\* ------------------------------------------------------------------------
\* Properties
\* ------------------------------------------------------------------------
\* The payload navigated with safe lookups only: entry[0].changes[0] and
\* entry[0].changes[0].value.messages[0]
FirstChange(body) == OptIndex0(OptGet(OptIndex0(OptGet(body, "entry")), "changes"))
FirstMessage(body) == OptIndex0(OptGet(OptGet(FirstChange(body), "value"), "messages"))

\* A message of type "text" with a non-empty body string
IsTextMessage(m) ==
  /\ ~Nullish(m)
  /\ Prop(m, "type") = Str("text")
  /\ OptGet(Prop(m, "text"), "body").t = "string"
  /\ OptGet(Prop(m, "text"), "body").s # ""

\* Some segment of entry[0] -> changes[0] -> value -> messages[0] is absent,
\* or the message is a text message without a text object
AbsentSegment(body) ==
  \/ Nullish(FirstMessage(body))
  \/ /\ Prop(FirstMessage(body), "type") = Str("text")
     /\ Nullish(Prop(FirstMessage(body), "text"))

\* C1: every response the POST handler sends has status 200, whatever the
\* request body and whatever the generation service does.
C1_PostAlwaysAnswers200 == \A i \in DOMAIN sent : sent[i].status = 200

\* A payload whose navigation threw has been answered.
C1_Witness ==
  /\ pc = "done"
  /\ Extract(reqBody).outcome = "caught"
  /\ sent = <<SendStatus(200)>>

\* C2: every POST request is eventually acknowledged with 200, and every
\* call of generarRespuestaGemini eventually resolves to a string, whatever
\* the generation service does (including never answering).
C2_EveryPostAcknowledged ==
  \A n \in 1..MaxRequests :
    /\ (reqNo = n) ~> (reqNo = n /\ sent = <<SendStatus(200)>>)
    /\ (reqNo = n /\ calls # <<>>) ~> (reqNo = n /\ gen.kind = "return")

\* C3: a GET is answered 200 with the challenge verbatim if and only if
\* hub.mode is "subscribe" and hub.verify_token equals the configured secret;
\* every other GET is answered 403 without the challenge.
C3_HandshakeIffTokenMatches ==
  getRes.status # 0 =>
    IF /\ getQuery.mode = Str("subscribe")
       /\ env.WHATSAPP_VERIFY_TOKEN # Undef
       /\ getQuery.token = env.WHATSAPP_VERIFY_TOKEN
      THEN getRes = Response(200, getQuery.challenge.s)
      ELSE getRes.status = 403 /\ getRes.body # getQuery.challenge.s

\* C4: when the first message has a type other than "text", the response
\* generator is not invoked for the request, and the request is answered 200.
C4_NonTextNeverGenerates ==
  (/\ reqNo > 0
   /\ ~Nullish(FirstMessage(reqBody))
   /\ Prop(FirstMessage(reqBody), "type").t = "string"
   /\ Prop(FirstMessage(reqBody), "type") # Str("text"))
    => calls = <<>> /\ gen.kind = "none" /\ (pc = "done" => sent = <<SendStatus(200)>>)

\* C5: when a segment of entry[0] -> changes[0] -> value -> messages[0] is
\* absent (or a text message has no text object), the handler answers 200
\* and the response generator is not invoked.
C5_AbsentSegmentAcknowledged ==
  (reqNo > 0 /\ AbsentSegment(reqBody))
    => pc = "done" /\ sent = <<SendStatus(200)>> /\ calls = <<>>

\* A text message without a text object under a "messages" change was answered.
C5_Witness ==
  /\ reqNo > 0
  /\ Prop(FirstChange(reqBody), "field") = Str("messages")
  /\ ~Nullish(FirstMessage(reqBody))
  /\ Prop(FirstMessage(reqBody), "type") = Str("text")
  /\ Nullish(Prop(FirstMessage(reqBody), "text"))
  /\ sent = <<SendStatus(200)>>

C7_GeneratorAlwaysReturnsString ==
  gen.kind # "none" =>
    /\ gen.kind = "return"
    /\ gen.value.t = "string"
    /\ gen.value.s =
         IF svc.state = "rejected" \/ svc.textThrows THEN DificultadesTecnicas
         ELSE IF svc.text \in {Undef, Str("")} THEN NoPudeGenerar
         ELSE svc.text.s

\* The service call failed and the generator returned the fallback string.
C7_Witness ==
  /\ svc.state = "rejected"
  /\ gen = GenReturn(Str(DificultadesTecnicas))

\* C8: when the generator was invoked for a request, the request is
\* acknowledged only after the generator's call has resolved.
C8_AckAfterGeneratorResolved ==
  (calls # <<>> /\ sent # <<>>) => gen.kind = "return"

\* A request for which the generator was invoked has been acknowledged.
C8_Witness == calls # <<>> /\ sent = <<SendStatus(200)>> /\ pc = "done"

\* C9: without GEMINI_API_KEY the process exits before listening: no request
\* is handled and the generation client is never created.
C9_NoKeyNoService ==
  ~Truthy(env.GEMINI_API_KEY) =>
    /\ proc # "listening"
    /\ ~genAI
    /\ reqNo = 0
    /\ getRes.status = 0

\* The process has exited because the key is unset.
C9_Witness == env.GEMINI_API_KEY = Undef /\ proc = "exited"

\* C10: with WHATSAPP_VERIFY_TOKEN unset, every GET is answered 403.
C10_NoSecretNoHandshake ==
  (env.WHATSAPP_VERIFY_TOKEN = Undef /\ getRes.status # 0) => getRes.status = 403

====
